---- MODULE Spec2Model ----
(***************************************************************************)
(* Model of src/main.rs: one poll cycle of the Enphase gateway collector.  *)
(* Strings the program parses are sequences of one-character strings, so   *)
(* that splitting, case folding and integer parsing are computed.          *)
(***************************************************************************)
EXTENDS Integers, Sequences, FiniteSets, TLC

\* ------------------------------------------------------------------ bounds
\* Largest value of the collector clock (SystemTime::now) in the model.
MaxClock == 2
\* Largest number of inverters in a decoded response.
MaxInverters == 2

\* ------------------------------------------------------- string primitives
DigitChars == <<"0", "1", "2", "3", "4", "5", "6", "7", "8", "9">>
LowerChars == <<"a", "b", "c", "d", "e", "f", "g", "h", "i", "j", "k", "l", "m",
                "n", "o", "p", "q", "r", "s", "t", "u", "v", "w", "x", "y", "z">>
UpperChars == <<"A", "B", "C", "D", "E", "F", "G", "H", "I", "J", "K", "L", "M",
                "N", "O", "P", "Q", "R", "S", "T", "U", "V", "W", "X", "Y", "Z">>

IsDigit(c) == \E i \in 1..10 : DigitChars[i] = c
DigitVal(c) == (CHOOSE i \in 1..10 : DigitChars[i] = c) - 1

\* u8::is_ascii_whitespace: space, tab, line feed, form feed, carriage return.
IsAsciiWhitespace(c) == c \in {" ", "\t", "\n", "\f", "\r"}

\* char::to_ascii_uppercase
CharToAsciiUppercase(c) ==
    IF \E i \in 1..26 : LowerChars[i] = c
    THEN UpperChars[CHOOSE i \in 1..26 : LowerChars[i] = c]
    ELSE c

\* str::to_ascii_uppercase
to_ascii_uppercase(s) == [i \in 1..Len(s) |-> CharToAsciiUppercase(s[i])]

\* str::split_ascii_whitespace: the non-empty maximal runs of
\* non-whitespace characters, in order.
RECURSIVE SplitFrom(_, _, _)
SplitFrom(s, i, cur) ==
    IF i > Len(s)
    THEN IF cur = <<>> THEN <<>> ELSE <<cur>>
    ELSE IF IsAsciiWhitespace(s[i])
         THEN IF cur = <<>>
              THEN SplitFrom(s, i + 1, <<>>)
              ELSE <<cur>> \o SplitFrom(s, i + 1, <<>>)
         ELSE SplitFrom(s, i + 1, Append(cur, s[i]))

split_ascii_whitespace(s) == SplitFrom(s, 1, <<>>)

\* ------------------------------------------------------------ i32 arithmetic
I32Max == 2147483647
I32Min == -I32Max - 1

\* Whether the mathematical product n * k (k > 0) is representable as i32,
\* decided without forming the product.
MulFitsI32(n, k) == n <= I32Max \div k /\ n >= -(I32Max \div k) - (IF (I32Max % k) = k - 1 THEN 1 ELSE 0)

\* i32::wrapping_mul(n, k) for k a power of two, 1 <= k <= 2^30: the low 32
\* bits of n * k read as two's complement. m = 2^32 / k.
WrappingMulPow2(n, k) ==
    LET m == 4 * (1073741824 \div k)
        r == n % m
    IN  IF r >= m \div 2 THEN (r - m) * k ELSE r * k

\* Accumulation loop of i32::from_str: digits left to right with checked
\* multiply/add (positive literal) or checked multiply/sub (negative literal).
RECURSIVE ParseDigits(_, _, _, _)
ParseDigits(s, i, acc, neg) ==
    IF i > Len(s) THEN [ok |-> TRUE, val |-> acc]
    ELSE IF ~IsDigit(s[i]) THEN [ok |-> FALSE, val |-> 0]
    ELSE LET d == DigitVal(s[i])
             fits == IF neg
                     THEN -acc <= (IF d = 0 THEN I32Max \div 10
                                            ELSE (I32Max - (d - 1)) \div 10)
                     ELSE acc <= (I32Max - d) \div 10
         IN  IF fits
             THEN ParseDigits(s, i + 1,
                              IF neg THEN acc * 10 - d ELSE acc * 10 + d, neg)
             ELSE [ok |-> FALSE, val |-> 0]

\* str::parse::<i32>: optional single leading sign, then one or more
\* decimal digits, nothing else; Err on empty, lone sign, non-digit, overflow.
ParseI32(s) ==
    IF Len(s) = 0 THEN [ok |-> FALSE, val |-> 0]
    ELSE IF s[1] \in {"+", "-"}
         THEN IF Len(s) = 1 THEN [ok |-> FALSE, val |-> 0]
              ELSE ParseDigits(s, 2, 0, s[1] = "-")
         ELSE ParseDigits(s, 1, 0, FALSE)


\* ----------------------------------------------------------- option values
None == <<>>
Some(x) == <<x>>
IsSome(o) == Len(o) = 1
Unwrap(o) == o[1]

\* ------------------------------------------------------- field normalizers
Panic == [ok |-> FALSE, val |-> 0]
Ok(v) == [ok |-> TRUE, val |-> v]

\* `number *= k` on an i32: the exact product when it fits; otherwise a
\* panic in a build with overflow checks and the wrapped value without.
MulAssign(number, k, overflow_checks) ==
    IF MulFitsI32(number, k) THEN Ok(number * k)
    ELSE IF overflow_checks THEN Panic
    ELSE Ok(WrappingMulPow2(number, k))

\* decode_memory_string: "<integer> <unit>" to a byte count.
decode_memory_string(s, overflow_checks) ==
    LET iter == split_ascii_whitespace(s)
    IN  IF Len(iter) < 1 THEN Panic
        ELSE LET parsed == ParseI32(iter[1])
             IN  IF ~parsed.ok THEN Panic
                 ELSE IF Len(iter) < 2 THEN Panic
                 ELSE LET number == parsed.val
                          multiple == to_ascii_uppercase(iter[2])
                      IN  IF multiple = <<"M", "B">>
                          THEN MulAssign(number, 1024 * 1024, overflow_checks)
                          ELSE IF multiple = <<"G", "B">>
                          THEN MulAssign(number, 1024 * 1024 * 1024, overflow_checks)
                          ELSE IF multiple = <<"K", "B">>
                          THEN MulAssign(number, 1024, overflow_checks)
                          ELSE Ok(number)

\* string_to_i32: a JSON string holding a decimal integer.
string_to_i32(s) == ParseI32(s)

\* decode_array_to_size: the element count of a JSON array.
decode_array_to_size(a) == Ok(Len(a))


\* ------------------------------------------------------ timezone database
\* chrono_tz::TZ_VARIANTS restricted to five zones, in the database's
\* iteration order. std/dst are the zone's offset abbreviations outside and
\* inside daylight saving time.
TZ_VARIANTS ==
    << [id |-> "America/New_York", std |-> "EST", dst |-> "EDT"],
       [id |-> "America/Toronto",  std |-> "EST", dst |-> "EDT"],
       [id |-> "CET",              std |-> "CET", dst |-> "CEST"],
       [id |-> "EST",              std |-> "EST", dst |-> "EST"],
       [id |-> "Europe/Paris",     std |-> "CET", dst |-> "CEST"] >>

\* First collector instant at which daylight saving time is in effect.
DstFrom == 1

\* OffsetName::tz_id of the offset zone t has at an instant: the zone's
\* database identifier, whatever the instant.
tz_id(t, instant) == t.id

\* OffsetName::abbreviation of the offset zone t has at an instant.
abbreviation(t, instant) == IF instant >= DstFrom THEN t.dst ELSE t.std

\* The filter with the offset's abbreviation compared in place of its
\* identifier.
ZoneFilterByAbbreviation(t, timestamp_nano, timezone) ==
    abbreviation(t, timestamp_nano) = timezone

\* The filter closure of home_to_influx: keep zone t when the identifier of
\* its offset at timestamp_nano equals the device's timezone string.
ZoneFilter(t, timestamp_nano, timezone) == tz_id(t, timestamp_nano) = timezone

\* TZ_VARIANTS.into_iter().filter(..).next(): the first zone kept, or None.
FirstZone(timestamp_nano, timezone) ==
    LET hits == {i \in 1..Len(TZ_VARIANTS) :
                    ZoneFilter(TZ_VARIANTS[i], timestamp_nano, timezone)}
    IN  IF hits = {} THEN None
        ELSE Some(TZ_VARIANTS[CHOOSE i \in hits : \A j \in hits : i <= j])

\* datetime_from_str(.., "%m/%d/%Y %H:%M"), reduced to the layout of the
\* text: digits and separators in their places, month 1..12, day 1..31,
\* hour 0..23, minute 0..59.
TwoDigits(s, i) == DigitVal(s[i]) * 10 + DigitVal(s[i + 1])
DateLayoutOk(d) ==
    /\ Len(d) = 10
    /\ d[3] = "/" /\ d[6] = "/"
    /\ \A i \in {1, 2, 4, 5, 7, 8, 9, 10} : IsDigit(d[i])
    /\ TwoDigits(d, 1) \in 1..12
    /\ TwoDigits(d, 4) \in 1..31
TimeLayoutOk(t) ==
    /\ Len(t) = 5
    /\ t[3] = ":"
    /\ \A i \in {1, 2, 4, 5} : IsDigit(t[i])
    /\ TwoDigits(t, 1) \in 0..23
    /\ TwoDigits(t, 4) \in 0..59
datetime_from_str(zone, current_date, current_time) ==
    IF DateLayoutOk(current_date) /\ TimeLayoutOk(current_time)
    THEN Ok(<<zone.id, current_date, current_time>>)
    ELSE Panic

\* ------------------------------------------------------------- the inputs
cli == [username |-> "envoy", password |-> "secret", url |-> "http://envoy.local"]

\* Decimal text of a natural number.
RECURSIVE Digits(_)
Digits(n) == IF n < 10 THEN <<DigitChars[n + 1]>>
             ELSE Digits(n \div 10) \o <<DigitChars[(n % 10) + 1]>>

\* The text "N UNIT".
SizeText(n, unit) == Digits(n) \o <<" ">> \o unit

\* The well-formed db_size texts the device sends, as <<N, UNIT, k>>: the
\* text is "N UNIT" and UNIT names the multiple 1024^k.
SizeTriples ==
    { <<12, <<"M", "B">>, 2>>, <<1, <<"b">>, 0>>, <<3, <<"k", "B">>, 1>>,
      <<1, <<"G", "B">>, 3>>, <<2, <<"G", "B">>, 3>>, <<4096, <<"m", "b">>, 2>>,
      <<0, <<"g", "b">>, 3>> }

\* Sizes with no unit token and with a unit token outside the vocabulary.
MissingUnitText(n) == Digits(n)
UnknownUnitText(n) == SizeText(n, <<"X", "B">>)
LenientSizes == {5, 7}

\* Every db_size text of the model: the well-formed ones, missing and
\* unknown units, a negative size, malformed numbers, no text.
DbSizeTexts ==
    { SizeText(p[1], p[2]) : p \in SizeTriples }
    \cup { MissingUnitText(n) : n \in LenientSizes }
    \cup { UnknownUnitText(n) : n \in LenientSizes }
    \cup { <<"-", "7", " ", "K", "B">>,
           <<"a", "b", "c", " ", "M", "B">>, <<>>,
           <<"2", "1", "4", "7", "4", "8", "3", "6", "4", "8", " ", "B">> }

DbPercentTexts == { <<"1">>, <<"-", "7">>, <<"1", "x">> }

TimezoneTexts == { "EST", "EDT", "America/New_York", "Mars/Olympus" }

DateTexts == { <<"0", "1", "/", "0", "1", "/", "2", "0", "2", "3">>,
               <<"2", "0", "2", "3", "-", "0", "1", "-", "0", "1">> }

\* The bodies of home.json: a JSON object of the expected shape, or not.
HomeBodies ==
    [ shape_ok : {TRUE},
      software_build_epoch : {1234567890},
      current_date : DateTexts,
      current_time : {<<"0", "1", ":", "0", "0">>},
      timezone : TimezoneTexts,
      db_size : DbSizeTexts,
      db_percent_full : DbPercentTexts,
      last_enlighten_report_time : {1234567890},
      comm : {[num |-> 1, level |-> 1]},
      alerts : {<<"a1", "a2">>},
      update_status : {"satisfied"} ]

BaseHomeBody == CHOOSE b \in HomeBodies :
    /\ b.db_size = SizeText(12, <<"M", "B">>)
    /\ b.db_percent_full = <<"1">>
    /\ b.timezone = "America/New_York"
    /\ DateLayoutOk(b.current_date)

\* The bodies of api/v1/production/inverters: arrays of 0..MaxInverters
\* readings, or a body of another shape.
InverterReading(i) ==
    [serialNumber |-> i, lastReportDate |-> 1688000000 + i,
     lastReportWatts |-> 123 - 200 * (i - 1), maxReportWatts |-> 234]
InverterBodies ==
    { [shape_ok |-> TRUE, items |-> [i \in 1..n |-> InverterReading(i)]] :
        n \in 0..MaxInverters }

\* What ureq's call() can come back with: a response with a status, or a
\* transport error.
StatusResponse(status, body) == [kind |-> "status", status |-> status, body |-> body]
TransportError == [kind |-> "transport", status |-> 0, body |-> None]

HomeResponses ==
    { StatusResponse(200, Some(b)) : b \in HomeBodies }
    \cup { StatusResponse(200, Some([BaseHomeBody EXCEPT !.shape_ok = FALSE])),
           StatusResponse(404, Some(BaseHomeBody)),
           StatusResponse(500, Some(BaseHomeBody)),
           TransportError }

InverterResponses ==
    { StatusResponse(200, Some(b)) : b \in InverterBodies }
    \cup { StatusResponse(200, Some([shape_ok |-> FALSE, items |-> <<>>])),
           StatusResponse(401, Some([shape_ok |-> TRUE, items |-> <<>>])),
           TransportError }

\* WWW-Authenticate headers: a challenge with its scheme and parameters.
Challenge(scheme) == [scheme |-> scheme, realm |-> "enphaseenergy.com", nonce |-> "n0"]
ProbeResponses ==
    { [kind |-> "status", status |-> st, www_authenticate |-> h] :
        st \in {200, 401, 403, 500},
        h \in {None, Some(Challenge("Digest")), Some(Challenge("Basic")),
               Some(Challenge("Bearer"))} }
    \cup { [kind |-> "transport", status |-> 0, www_authenticate |-> None] }


\* --------------------------------------------------------------- the state
VARIABLES
    pc,               \* the statement main is at
    overflow_checks,  \* whether the build checks integer overflow
    clock,            \* what SystemTime::now() returns
    requests,         \* the HTTP requests issued so far, in order
    auth_response,    \* get_auth_header: the probe's response
    password_client,  \* get_auth_header: the decoded challenge
    auth,             \* main: the Authorization header value
    body,             \* the response the current fetch got
    home,             \* main: the decoded HomeResponse
    timestamp_nano,   \* home_to_influx: its timestamp
    zone,             \* home_to_influx: the zone selected
    inverters,        \* main: the decoded Vec<InvertersResponse>
    stdout            \* the lines printed so far, in order

vars == <<pc, overflow_checks, clock, requests, auth_response, password_client,
          auth, body, home, timestamp_nano, zone, inverters, stdout>>

Init ==
    /\ pc = "get_auth_header"
    /\ overflow_checks \in BOOLEAN
    /\ clock = 0
    /\ requests = <<>>
    /\ auth_response = None
    /\ password_client = None
    /\ auth = None
    /\ body = None
    /\ home = None
    /\ timestamp_nano = None
    /\ zone = None
    /\ inverters = None
    /\ stdout = <<>>

\* ------------------------------------------------------------ HTTP layer
Url(base, path) == <<base, path>>

\* ureq::get(url): a request with no Authorization header.
PlainRequest(url) == [method |-> "GET", url |-> url, authorization |-> None]

\* ureq's call(): Ok for a status below 400, Err(Error::Status) from 400
\* up, Err(Error::Transport) when there is no response.
CallIsOk(r) == r.kind = "status" /\ r.status < 400

\* -------------------------------------------------------- get_auth_header
\* PasswordClient::try_from(header): Digest and Basic challenges only.
PasswordClientTryFrom(header) ==
    IF header.scheme \in {"Digest", "Basic"} THEN Ok(header) ELSE Panic

\* PasswordClient::respond: the Authorization value. A Digest response
\* binds username, password, realm, nonce, method and uri; a Basic one
\* only username and password.
respond(client, username, password, uri, method) ==
    IF client.scheme = "Digest"
    THEN [scheme |-> "Digest", username |-> username, password |-> password,
          realm |-> client.realm, nonce |-> client.nonce,
          uri |-> uri, method |-> method]
    ELSE [scheme |-> "Basic", username |-> username, password |-> password,
          realm |-> "", nonce |-> "", uri |-> "", method |-> ""]

\* A middleware answering the challenge anew for each request, with the
\* request's own method and path.
basic_auth_per_request(req) ==
    [req EXCEPT !.authorization =
        Some(respond(Unwrap(password_client), cli.username, cli.password,
                     req.url[2], req.method))]

\* The middleware closure of main: every request of the agent gets the
\* Authorization header set to the captured auth string.
basic_auth(req) == [req EXCEPT !.authorization = auth]

\* agent.get(url): the request as it leaves the agent's middleware.
AgentRequest(url) == basic_auth(PlainRequest(url))

\* Whether the probe's result passes expect_err(..).into_response().unwrap():
\* call() returned Err, and the error carries a response.
ProbeAccepted(r) == ~CallIsOk(r) /\ r.kind = "status"

\* The unauthenticated probe of <url>/installer/setup/home.
Probe ==
    /\ pc = "get_auth_header"
    /\ \E r \in ProbeResponses :
        /\ requests' = Append(requests, PlainRequest(Url(cli.url, "installer/setup/home")))
        /\ auth_response' = Some(r)
        /\ pc' = IF ProbeAccepted(r) THEN "try_from" ELSE "panicked"
    /\ UNCHANGED <<overflow_checks, clock, password_client, auth, body, home,
                   timestamp_nano, zone, inverters, stdout>>

\* header("WWW-Authenticate").unwrap() and PasswordClient::try_from(..).unwrap().
DecodeChallenge ==
    /\ pc = "try_from"
    /\ LET header == Unwrap(auth_response).www_authenticate
           client == IF IsSome(header) THEN PasswordClientTryFrom(Unwrap(header))
                     ELSE Panic
       IN  IF client.ok
           THEN password_client' = Some(client.val) /\ pc' = "respond"
           ELSE password_client' = password_client /\ pc' = "panicked"
    /\ UNCHANGED <<overflow_checks, clock, requests, auth_response, auth, body,
                   home, timestamp_nano, zone, inverters, stdout>>

\* password_client.respond(..).unwrap(), and main's binding of the result.
ComputeToken ==
    /\ pc = "respond"
    /\ auth' = Some(respond(Unwrap(password_client), cli.username, cli.password,
                            "*", "GET"))
    /\ pc' = "get_home"
    /\ UNCHANGED <<overflow_checks, clock, requests, auth_response,
                   password_client, body, home, timestamp_nano, zone, inverters,
                   stdout>>


\* ----------------------------------------------------- get_home and decode
\* serde's decoding of HomeResponse: the JSON shape, then the annotated
\* fields through their normalizers; a normalizer's panic ends the decode.
DecodeHome(b, oc) ==
    IF ~b.shape_ok THEN Panic
    ELSE LET size == decode_memory_string(b.db_size, oc)
             percent == string_to_i32(b.db_percent_full)
             count == decode_array_to_size(b.alerts)
         IN  IF size.ok /\ percent.ok /\ count.ok
             THEN Ok([software_build_epoch |-> b.software_build_epoch,
                      current_date |-> b.current_date,
                      current_time |-> b.current_time,
                      timezone |-> b.timezone,
                      db_size |-> size.val,
                      db_percent_full |-> percent.val,
                      network |-> [last_enlighten_report_time |->
                                       b.last_enlighten_report_time],
                      comm |-> b.comm,
                      alerts |-> count.val,
                      update_status |-> b.update_status])
             ELSE Panic

\* get_home issuing its request again when call() fails.
AfterHomeCallRetry(r) == IF CallIsOk(r) THEN "home_into_json" ELSE "get_home"

\* Where get_home goes after call(): on to into_json, or a panic in unwrap.
AfterHomeCall(r) == IF CallIsOk(r) THEN "home_into_json" ELSE "panicked"

\* get_home: agent.get(<url>/home.json).call().unwrap()
GetHomeCall ==
    /\ pc = "get_home"
    /\ \E r \in HomeResponses :
        /\ requests' = Append(requests, AgentRequest(Url(cli.url, "home.json")))
        /\ body' = Some(r)
        /\ pc' = AfterHomeCall(r)
    /\ UNCHANGED <<overflow_checks, clock, auth_response, password_client, auth,
                   home, timestamp_nano, zone, inverters, stdout>>

\* get_home: body.into_json().unwrap()
GetHomeDecode ==
    /\ pc = "home_into_json"
    /\ LET d == DecodeHome(Unwrap(Unwrap(body).body), overflow_checks)
       IN  IF d.ok
           THEN home' = Some(d.val) /\ pc' = "home_to_influx"
           ELSE home' = home /\ pc' = "panicked"
    /\ UNCHANGED <<overflow_checks, clock, requests, auth_response,
                   password_client, auth, body, timestamp_nano, zone, inverters,
                   stdout>>

\* ------------------------------------------------------------ home_to_influx
\* One printed line. Instants are kept as epoch seconds; the program prints
\* them as nanoseconds.
Line(measurement, tags, fields, ts) ==
    [measurement |-> measurement, tags |-> tags, fields |-> fields,
     timestamp |-> ts]

\* The first three println! of home_to_influx, after its SystemTime::now().
HomeHeadLines(h, ts) ==
    << Line("software_build_date", <<>>, <<h.software_build_epoch>>, ts),
       Line("database", <<>>, <<h.db_size, h.db_percent_full>>, ts),
       Line("phone_home", <<>>,
            <<h.update_status, h.alerts, h.network.last_enlighten_report_time>>, ts) >>

\* The last two println! of home_to_influx.
HomeTailLines(h, device_datetime, ts) ==
    << Line("device_time_skew", <<>>, <<device_datetime>>, ts),
       Line("comm", <<>>, <<h.comm.num, h.comm.level>>, ts) >>

\* home_to_influx up to the zone lookup: take the timestamp, print the
\* software_build_date, database and phone_home lines.
HomeToInfluxHead ==
    /\ pc = "home_to_influx"
    /\ timestamp_nano' = Some(clock)
    /\ stdout' = stdout \o HomeHeadLines(Unwrap(home), clock)
    /\ pc' = "home_zone"
    /\ UNCHANGED <<overflow_checks, clock, requests, auth_response,
                   password_client, auth, body, home, zone, inverters>>

\* home_to_influx: TZ_VARIANTS.into_iter().filter(..).next().unwrap()
HomeResolveZone ==
    /\ pc = "home_zone"
    /\ LET z == FirstZone(Unwrap(timestamp_nano), Unwrap(home).timezone)
       IN  IF IsSome(z)
           THEN zone' = z /\ pc' = "home_device_datetime"
           ELSE zone' = zone /\ pc' = "panicked"
    /\ UNCHANGED <<overflow_checks, clock, requests, auth_response,
                   password_client, auth, body, home, timestamp_nano, inverters,
                   stdout>>

\* home_to_influx: zone.datetime_from_str(..).unwrap(), then the
\* device_time_skew and comm lines.
HomeToInfluxTail ==
    /\ pc = "home_device_datetime"
    /\ LET h == Unwrap(home)
           dt == datetime_from_str(Unwrap(zone), h.current_date, h.current_time)
       IN  IF dt.ok
           THEN /\ stdout' = stdout \o HomeTailLines(h, dt.val, Unwrap(timestamp_nano))
                /\ pc' = "get_inverters"
           ELSE /\ stdout' = stdout
                /\ pc' = "panicked"
    /\ UNCHANGED <<overflow_checks, clock, requests, auth_response,
                   password_client, auth, body, home, timestamp_nano, zone,
                   inverters>>

\* ------------------------------------------- get_inverters and its emission
\* serde's decoding of Vec<InvertersResponse>.
DecodeInverters(b) ==
    IF ~b.shape_ok THEN Panic
    ELSE Ok([i \in 1..Len(b.items) |->
                [serial_number |-> b.items[i].serialNumber,
                 last_report_date |-> b.items[i].lastReportDate,
                 last_report_watts |-> b.items[i].lastReportWatts,
                 max_report_watts |-> b.items[i].maxReportWatts]])

\* Where get_inverters goes after call().
AfterInvertersCall(r) == IF CallIsOk(r) THEN "inverters_into_json" ELSE "panicked"

\* get_inverters: agent.get(<url>/api/v1/production/inverters).call().unwrap()
GetInvertersCall ==
    /\ pc = "get_inverters"
    /\ \E r \in InverterResponses :
        /\ requests' = Append(requests,
                              AgentRequest(Url(cli.url, "api/v1/production/inverters")))
        /\ body' = Some(r)
        /\ pc' = AfterInvertersCall(r)
    /\ UNCHANGED <<overflow_checks, clock, auth_response, password_client, auth,
                   home, timestamp_nano, zone, inverters, stdout>>

\* get_inverters: body.into_json().unwrap()
GetInvertersDecode ==
    /\ pc = "inverters_into_json"
    /\ LET d == DecodeInverters(Unwrap(Unwrap(body).body))
       IN  IF d.ok
           THEN inverters' = Some(d.val) /\ pc' = "inverters_to_influx"
           ELSE inverters' = inverters /\ pc' = "panicked"
    /\ UNCHANGED <<overflow_checks, clock, requests, auth_response,
                   password_client, auth, body, home, timestamp_nano, zone,
                   stdout>>

\* The timestamp inverters_to_influx stamps its lines with: its own
\* SystemTime::now().
InvertersTimestamp == clock

\* One println! per inverter.
InverterLines(inv, ts) ==
    [i \in 1..Len(inv) |->
        Line("inverter", <<inv[i].serial_number>>,
             <<inv[i].last_report_date, inv[i].last_report_watts,
               inv[i].max_report_watts>>, ts)]

\* inverters_to_influx, and the end of main.
InvertersToInflux ==
    /\ pc = "inverters_to_influx"
    /\ stdout' = stdout \o InverterLines(Unwrap(inverters), InvertersTimestamp)
    /\ pc' = "exit"
    /\ UNCHANGED <<overflow_checks, clock, requests, auth_response,
                   password_client, auth, body, home, timestamp_nano, zone,
                   inverters>>

\* ------------------------------------------------------------- environment
\* The collector's clock advances while the process runs.
Tick ==
    /\ pc \notin {"exit", "panicked"}
    /\ clock < MaxClock
    /\ clock' = clock + 1
    /\ UNCHANGED <<pc, overflow_checks, requests, auth_response, password_client,
                   auth, body, home, timestamp_nano, zone, inverters, stdout>>

Next ==
    \/ Probe
    \/ DecodeChallenge
    \/ ComputeToken
    \/ GetHomeCall
    \/ GetHomeDecode
    \/ HomeToInfluxHead
    \/ HomeResolveZone
    \/ HomeToInfluxTail
    \/ GetInvertersCall
    \/ GetInvertersDecode
    \/ InvertersToInflux
    \/ Tick

Spec == Init /\ [][Next]_vars


\* ================================================================ properties
\* The run has ended: main returned, or a panic aborted the process.
Terminated == pc \in {"exit", "panicked"}

\* The path of the i-th request issued.
PathOf(i) == requests[i].url[2]

\* The raw home.json body that was decoded, when the decode is the last
\* thing that happened to `body`.
RawHome == Unwrap(Unwrap(body).body)

\* get_home's into_json has been applied to the home.json body in `body`,
\* and nothing but the size normalizer can have failed in it.
SizeDecodeIsolated ==
    /\ Len(requests) = 2
    /\ IsSome(body)
    /\ CallIsOk(Unwrap(body))
    /\ pc # "home_into_json"
    /\ RawHome.shape_ok
    /\ RawHome.db_percent_full = <<"1">>

\* The measurements of the five SystemStatus series.
StatusSeries == {"software_build_date", "database", "phone_home",
                 "device_time_skew", "comm"}

\* stdout holds a full poll cycle: one line of each SystemStatus series and
\* one line per inverter of the decoded list.
FullCycle ==
    /\ IsSome(inverters)
    /\ Len(stdout) = 5 + Len(Unwrap(inverters))
    /\ \A m \in StatusSeries : \E i \in 1..Len(stdout) : stdout[i].measurement = m
    /\ Cardinality({i \in 1..Len(stdout) : stdout[i].measurement = "inverter"})
         = Len(Unwrap(inverters))

\* C1 (as claimed): emission is all-or-nothing; when the run has ended,
\* stdout holds either no metric line or every line of the poll cycle.
C1_AllOrNothing == Terminated => (stdout = <<>> \/ FullCycle)

\* C2 (as claimed): a probe answered with any status other than 401 ends
\* the run at the probe: no token is computed and no further request issued.
C2_Non401ProbeIsFatal ==
    (IsSome(auth_response) /\ Unwrap(auth_response).kind = "status"
        /\ Unwrap(auth_response).status # 401)
    => (auth = None /\ Len(requests) = 1)

\* C3 (as claimed): for every text "N UNIT" with UNIT naming 1024^k, the
\* size normalizer returns exactly N * 1024^k, also beyond 32 bits. The
\* product is compared through quotient and remainder.
C3_SizeIsScaledExactly ==
    SizeDecodeIsolated =>
        \A p \in SizeTriples :
            RawHome.db_size = SizeText(p[1], p[2]) =>
                /\ IsSome(home)
                /\ Unwrap(home).db_size \div (1024 ^ p[3]) = p[1]
                /\ Unwrap(home).db_size % (1024 ^ p[3]) = 0

\* C4 (as claimed): in every decoded SystemStatus record db_size and
\* db_percent_full are non-negative.
C4_SizeAndPercentNonNegative ==
    IsSome(home) => (Unwrap(home).db_size >= 0 /\ Unwrap(home).db_percent_full >= 0)

\* C5 (as claimed): the size normalizer never fails because of the unit
\* token; an unknown unit and a missing unit both yield N unscaled.
C5_UnitNeverFails ==
    SizeDecodeIsolated =>
        \A n \in LenientSizes :
            RawHome.db_size \in {MissingUnitText(n), UnknownUnitText(n)} =>
                (IsSome(home) /\ Unwrap(home).db_size = n)

\* The zone lookup of home_to_influx has run.
ZoneStepDone == IsSome(timestamp_nano) /\ pc # "home_zone"

\* The positions of the zones whose abbreviation at instant t is the label.
AbbreviationMatches(label, t) ==
    {i \in 1..Len(TZ_VARIANTS) : abbreviation(TZ_VARIANTS[i], t) = label}

\* The positions of the zones whose database identifier is the label.
IdentifierMatches(label) ==
    {i \in 1..Len(TZ_VARIANTS) : TZ_VARIANTS[i].id = label}

Least(S) == CHOOSE i \in S : \A j \in S : i <= j

C7_StrictOrder ==
    /\ \A i \in 1..Len(requests) :
          PathOf(i) = <<"installer/setup/home", "home.json",
                        "api/v1/production/inverters">>[i]
    /\ (Len(requests) >= 2 => IsSome(auth))
    /\ (stdout # <<>> => IsSome(inverters))

\* Every request after the probe carries the one token, and a Digest token
\* is the response to the probe's challenge for method GET and uri "*".
C8_TokenShared ==
    /\ \A i \in 1..Len(requests) :
          IF PathOf(i) = "installer/setup/home"
          THEN requests[i].authorization = None
          ELSE IsSome(auth) /\ requests[i].authorization = auth
    /\ IsSome(auth) =>
          LET t == Unwrap(auth)
              c == Unwrap(Unwrap(auth_response).www_authenticate)
          IN  /\ t.scheme = c.scheme
              /\ t.username = cli.username /\ t.password = cli.password
              /\ t.scheme = "Digest" =>
                    (t.uri = "*" /\ t.method = "GET" /\ t.nonce = c.nonce
                       /\ t.realm = c.realm)

\* C8: the token is computed once and never changed afterwards, and both the
\* home.json and the inverters request carry exactly that token, whatever
\* their path.
C8_TokenOnceAndShared ==
    [](C8_TokenShared) /\ [][IsSome(auth) => auth' = auth]_vars

\* C8 witness: both authenticated requests have left, carrying the token.
C8_Witness ==
    /\ Len(requests) = 3
    /\ IsSome(auth)
    /\ Unwrap(auth).scheme = "Digest"
    /\ requests[2].authorization = auth
    /\ requests[3].authorization = auth

\* C9 (as claimed): all metric lines of a poll cycle carry one timestamp.
C9_OneTimestamp ==
    \A i, j \in 1..Len(stdout) : stdout[i].timestamp = stdout[j].timestamp

\* The fetch whose response is in `body` failed in transport, or its body
\* has been found not to decode.
FetchFailed ==
    /\ IsSome(body)
    /\ \/ ~CallIsOk(Unwrap(body))
       \/ /\ pc \notin {"home_into_json", "inverters_into_json"}
          /\ ~Unwrap(Unwrap(body).body).shape_ok

\* The probe got no response at all.
ProbeFailed == IsSome(auth_response) /\ Unwrap(auth_response).kind = "transport"

\* No request path occurs twice among the requests issued.
NoRequestTwice ==
    \A i, j \in 1..Len(requests) : PathOf(i) = PathOf(j) => i = j

====
